---- MODULE Spec2Model ----
(***************************************************************************)
(* Model of rf's script pipeline (src/rf.go): the tokenizer               *)
(* (cut, cutAny, trimComments), the dispatch table cmds, the              *)
(* load / validate / execute / normalize loop of run and its finalizer.   *)
(*                                                                         *)
(* Go strings are modelled as sequences of one-character strings.  The    *)
(* package rsc.io/rf/refactor (Refactor, Snapshot) and the handlers other *)
(* than cmdDebug are not part of src/rf.go; they are modelled as an       *)
(* environment whose results are chosen nondeterministically.             *)
(***************************************************************************)
EXTENDS Integers, Sequences, FiniteSets, TLC

(***************************************************************************)
(* Bounds of the model.                                                    *)
(***************************************************************************)
\* Largest number of script parts joined (by newlines) into one script.
MaxParts == 3
\* Largest number of diagnostics one Load or one handler reports.
MaxDiag == 1
\* Largest length of a script given to the tokenizer alone.
MaxLen == 5

(***************************************************************************)
(* Characters and strings.                                                 *)
(***************************************************************************)
NL == "\n"
TAB == "\t"
BS == "\\"
\* The zero byte: the value of "var q byte" when no quote is open.
NUL == "NUL"
\* The single quote, the double quote and the backquote (which cannot be
\* written inside a TLA+ string, so a token stands for it).
SQ == "'"
DQ == "\""
BQ == "BQ"
\* unicode.IsSpace restricted to the characters a script is built from.
WhiteSpace == {" ", "\t", "\n", "\r", "\f"}

Min(S) == CHOOSE x \in S : \A y \in S : x <= y
Max(S) == CHOOSE x \in S : \A y \in S : x >= y

\* The element of a one-element set.  The({ e(v) : v \in {s} }) is e(s),
\* with s evaluated once however often e reads it.
The(S) == CHOOSE x \in S : TRUE

\* s[i:] and s[:i] of Go, for 0-based byte offset i.
From(s, i) == SubSeq(s, i + 1, Len(s))
Upto(s, i) == SubSeq(s, 1, i)

\* strings.Index(s, sep): 0-based offset of the first occurrence, or -1.
Index(s, sep) ==
  The({ LET hits == {i \in 0..(Len(v) - Len(sep)) :
                       SubSeq(v, i + 1, i + Len(sep)) = sep}
        IN IF hits = {} THEN -1 ELSE Min(hits) : v \in {s} })

\* strings.IndexAny(s, chars): offset of the first character of s in chars.
IndexAny(s, chars) ==
  The({ LET hits == {i \in 0..(Len(v) - 1) : v[i + 1] \in chars}
        IN IF hits = {} THEN -1 ELSE Min(hits) : v \in {s} })

\* strings.HasSuffix(s, suffix) for a one-character suffix.
HasSuffix(s, c) == Len(s) > 0 /\ s[Len(s)] = c

\* strings.TrimLeft(s, cutset).
TrimLeft(s, cutset) ==
  The({ LET keep == {i \in 1..Len(v) : v[i] \notin cutset}
        IN IF keep = {} THEN <<>> ELSE SubSeq(v, Min(keep), Len(v)) : v \in {s} })

\* strings.TrimSpace(s).
TrimSpace(s) ==
  The({ LET keep == {i \in 1..Len(v) : v[i] \notin WhiteSpace}
        IN IF keep = {} THEN <<>> ELSE SubSeq(v, Min(keep), Max(keep)) : v \in {s} })

\* strings.ReplaceAll is used only for the trace output; strings.Fields(s):
\* the maximal runs of non-space characters of s, in order.
RECURSIVE Fields(_)
Fields(s) ==
  LET t == TrimLeft(s, WhiteSpace)
      i == IndexAny(t, WhiteSpace)
  IN IF t = <<>> THEN <<>>
     ELSE IF i < 0 THEN <<t>>
     ELSE <<Upto(t, i)>> \o Fields(From(t, i))

\* cut(s, sep): <<before, after, ok>>.
cut(s, sep) ==
  LET i == Index(s, sep)
  IN IF i >= 0 THEN <<Upto(s, i), From(s, i + Len(sep)), TRUE>>
     ELSE <<s, <<>>, FALSE>>

\* cutAny(s, any): <<before, after, ok>>.  The character found is one of
\* any, a one-byte rune in every call of run, so size = 1.
cutAny(s, any) ==
  LET i == IndexAny(s, any)
  IN IF i >= 0 THEN <<Upto(s, i), From(s, i + 1), TRUE>>
     ELSE <<s, <<>>, FALSE>>

\* The loop of trimComments: i is the 0-based loop index, q the open quote.
\* The loop condition re-reads len(line), which a cut at '#' shortens.
RECURSIVE trimScan(_, _, _)
trimScan(line, i, q) ==
  IF i >= Len(line) THEN line
  ELSE LET c == line[i + 1] IN
    IF c = q THEN trimScan(line, i + 1, NUL)
    ELSE IF c \in {SQ, DQ, BQ} THEN trimScan(line, i + 1, c)
    ELSE IF c = BS THEN
      (IF q = SQ \/ q = DQ THEN trimScan(line, i + 2, q)
       ELSE trimScan(line, i + 1, q))
    ELSE IF c = "#" THEN
      (IF q = NUL THEN trimScan(Upto(line, i), i + 1, q)
       ELSE trimScan(line, i + 1, q))
    ELSE trimScan(line, i + 1, q)

trimComments(line) == The({ TrimSpace(trimScan(l, 0, NUL)) : l \in {line} })

\* strings.ReplaceAll(line, "\n", "\\\n"), the text of the trace output.
RECURSIVE ReplaceNL(_)
ReplaceNL(s) ==
  IF s = <<>> THEN <<>>
  ELSE (IF Head(s) = NL THEN <<BS, NL>> ELSE <<Head(s)>>) \o ReplaceNL(Tail(s))

\* Faulty variant of joinLines: an "if" in place of the "for" of line 72, the
\* line is joined with at most one further physical line.
joinLinesOnce(line, text, phys) ==
  IF HasSuffix(line, BS) /\ text # <<>> THEN
    LET c == cut(text, <<NL>>)
    IN [line |-> trimComments(Upto(line, Len(line) - 1) \o <<NL>> \o c[1]),
        text |-> c[2], phys |-> phys + 1]
  ELSE [line |-> line, text |-> text, phys |-> phys]

\* The continuation loop of run: while the comment-stripped line ends in a
\* backslash and script text remains, drop the backslash, append a newline
\* and the next physical line, and strip comments again.  phys counts the
\* physical lines consumed.
RECURSIVE joinLines(_, _, _)
joinLines(line, text, phys) ==
  The({ IF HasSuffix(l, BS) /\ t # <<>> THEN
          LET c == cut(t, <<NL>>)
          IN joinLines(trimComments(Upto(l, Len(l) - 1) \o <<NL>> \o c[1]),
                       c[2], phys + 1)
        ELSE [line |-> l, text |-> t, phys |-> phys] : l \in {line}, t \in {text} })

\* Faulty variant of readLine: the first physical line is not stripped of
\* comments before the continuation test, which so reads the raw line.
readLineRawTest(text) ==
  LET c == cut(text, <<NL>>)
      j == joinLines(c[1], c[2], 1)
  IN [line |-> TrimLeft(trimComments(j.line), {" ", TAB, NL}),
      text |-> j.text, phys |-> j.phys]

\* One pass of the tokenizer: the next logical line of text, the text left
\* after it, and the number of physical lines it was read from.
readLine(text) ==
  The({ [line |-> TrimLeft(j.line, {" ", TAB, NL}), text |-> j.text, phys |-> j.phys] :
        j \in { joinLines(trimComments(c[1]), c[2], 1) : c \in {cut(text, <<NL>>)} } })

\* The text recorded in lastCmd for a logical line.
recordText(line) ==
  LET c == cut(line, <<NL>>)
  IN IF c[3] THEN c[1] \o <<" ", BS, " ", ".", ".", ".">> ELSE c[1]

(***************************************************************************)
(* The dispatch table.                                                     *)
(***************************************************************************)
cmds ==
  { <<"a", "d", "d">>,
    <<"d", "e", "b", "u", "g">>,
    <<"i", "n", "l", "i", "n", "e">>,
    <<"k", "e", "y">>,
    <<"e", "x">>,
    <<"m", "v">>,
    <<"r", "m">> }

cmdDebugName == <<"d", "e", "b", "u", "g">>
traceKey == <<"t", "r", "a", "c", "e">>

(***************************************************************************)
(* The Debug map of the Refactor: a function from keys to values; a key   *)
(* that is absent reads as the empty string.                               *)
(***************************************************************************)
EmptyMap == [k \in {} |-> <<>>]
MapGet(m, k) == IF k \in DOMAIN m THEN m[k] ELSE <<>>
MapSet(m, k, v) == [x \in (DOMAIN m) \cup {k} |-> IF x = k THEN v ELSE m[x]]

\* Faulty variant of debugFields: a field without '=' gets the empty text
\* that cut returns, not "1".
RECURSIVE debugFieldsNoDefault(_, _)
debugFieldsNoDefault(m, fs) ==
  IF fs = <<>> THEN m
  ELSE LET c == cut(Head(fs), <<"=">>)
       IN debugFieldsNoDefault(MapSet(m, c[1], c[2]), Tail(fs))

\* cmdDebug: the loop over strings.Fields(text).
RECURSIVE debugFields(_, _)
debugFields(m, fs) ==
  IF fs = <<>> THEN m
  ELSE LET c == cut(Head(fs), <<"=">>)
           val == IF c[3] THEN c[2] ELSE <<"1">>
       IN debugFields(MapSet(m, c[1], val), Tail(fs))

cmdDebug(m, text) == debugFields(m, Fields(text))

(***************************************************************************)
(* The refactor package, as the pipeline uses it.  A Snapshot holds the   *)
(* edits it was loaded with (src), the edits buffered since (pending) and *)
(* its number of diagnostics.  An edit is the command that made it and    *)
(* whether Gofmt has normalized it.                                        *)
(***************************************************************************)
Workspace == [kind |-> "Refactor"]
NoSnap == [kind |-> "nil"]

Content(b) == IF b.kind = "Snapshot" THEN b.src \o b.pending ELSE <<>>

\* base.Load() without error: a fresh Snapshot of the base with its pending
\* edits applied, carrying the d diagnostics the type checker reports.
Load(b, d) ==
  [kind |-> "Snapshot", src |-> Content(b), pending |-> <<>>, errors |-> d]

Errors(s) == s.errors

\* A handler other than cmdDebug: buffers its edit and adds d diagnostics.
Handler(s, c, a, d) ==
  [s EXCEPT !.pending = Append(@, [cmd |-> c, args |-> a, fmt |-> FALSE]),
            !.errors = @ + d]

\* snap.Gofmt(): normalizes the pending edits.
RECURSIVE fmtAll(_)
fmtAll(es) ==
  IF es = <<>> THEN <<>>
  ELSE <<[Head(es) EXCEPT !.fmt = TRUE]>> \o fmtAll(Tail(es))

Gofmt(s) == [s EXCEPT !.pending = fmtAll(@)]

(***************************************************************************)
(* Values returned by run.                                                 *)
(***************************************************************************)
Res(k, m, a) == [kind |-> k, msg |-> m, arg |-> a]
Running == Res("running", "", <<>>)
NilErr == Res("nil", "", <<>>)
Panic(m) == Res("panic", m, <<>>)
Errorf(m, a) == Res("error", m, a)
LoadErr == Errorf("load", <<>>)
DiffErr == Errorf("diff", <<>>)
WriteErr == Errorf("write", <<>>)

(***************************************************************************)
(* Scripts.  A script is up to MaxParts parts joined by newlines; the     *)
(* parts are a command with an argument, an unknown command, a command    *)
(* that ends in a continuation backslash, a blank line, a comment line,   *)
(* a debug command that switches tracing on, and a command whose argument *)
(* follows a tab and is followed by a comment.                             *)
(***************************************************************************)
ScriptParts ==
  { <<"m", "v", " ", "a">>,
    <<"z", "z">>,
    <<"e", "x", " ", "b", BS>>,
    <<>>,
    <<" ", "#", "c">>,
    <<"d", "e", "b", "u", "g", " ", "t", "r", "a", "c", "e">>,
    <<"r", "m", TAB, "c", " ", "#", "d">> }

RECURSIVE JoinParts(_)
JoinParts(ps) ==
  IF ps = <<>> THEN <<>>
  ELSE IF Len(ps) = 1 THEN ps[1]
  ELSE ps[1] \o <<NL>> \o JoinParts(Tail(ps))

Scripts ==
  UNION { { JoinParts(ps) : ps \in [1..n -> ScriptParts] } : n \in 0..MaxParts }

(***************************************************************************)
(* State.                                                                  *)
(***************************************************************************)
VARIABLES
  script,    \* the script argument of run
  showDiff,  \* rf.ShowDiff
  Debug,     \* rf.Debug
  text,      \* the script text not yet read
  line,      \* the current logical line
  cmd,       \* its command name
  args,      \* its argument string
  lastCmd,   \* the recorded text of the last command started
  base,      \* the loader of the next iteration
  snap,      \* the most recent Snapshot, or NoSnap
  err,       \* the variable err of the loop body
  pc,        \* the position of run
  result,    \* what run returned, or Running
  toks,      \* history: the logical lines read so far
  stderr,    \* the lines traced to os.Stderr
  log        \* history: the calls made to the refactor package and to rf.Stdout

vars == <<script, showDiff, Debug, text, line, cmd, args, lastCmd, base, snap,
          err, pc, result, toks, stderr, log>>

\* Entries of log.
EvLoad(b, s, e) == [op |-> "Load", on |-> b, out |-> s, err |-> e]
EvCall(c, a, s, t) == [op |-> "Call", cmd |-> c, args |-> a, on |-> s, out |-> t]
EvGofmt(s, t) == [op |-> "Gofmt", on |-> s, out |-> t]
EvDiff(s, e) == [op |-> "Diff", on |-> s, err |-> e]
EvStdout(s) == [op |-> "Stdout", on |-> s]
EvWrite(s, e) == [op |-> "Write", on |-> s, err |-> e]

Init ==
  /\ script \in Scripts
  /\ showDiff \in BOOLEAN
  /\ Debug = EmptyMap
  /\ text = script
  /\ line = <<>>
  /\ cmd = <<>>
  /\ args = <<>>
  /\ lastCmd = <<>>
  /\ base = Workspace
  /\ snap = NoSnap
  /\ err = NilErr
  /\ pc = "loop"
  /\ result = Running
  /\ toks = <<>>
  /\ stderr = <<>>
  /\ log = <<>>

\* return v
Return(v) == pc' = "done" /\ result' = v

\* Faulty variant of NextLine: a blank line is not consumed, the loop reads
\* it again.
NextLineRereadsBlank ==
  /\ pc = "loop"
  /\ text # <<>>
  /\ LET r == readLine(text)
         c == cutAny(r.line, {" ", TAB})
     IN /\ line' = r.line
        /\ IF r.line = <<>>
           THEN /\ pc' = "loop"
                /\ text' = text
                /\ UNCHANGED <<cmd, args, toks, stderr>>
           ELSE /\ text' = r.text
                /\ cmd' = c[1]
                /\ args' = c[2]
                /\ toks' = Append(toks, [line |-> r.line, cmd |-> c[1],
                                         args |-> c[2], phys |-> r.phys])
                /\ stderr' = IF MapGet(Debug, traceKey) # <<>>
                             THEN Append(stderr, <<">", " ">> \o ReplaceNL(r.line))
                             ELSE stderr
                /\ pc' = "dispatch"
  /\ UNCHANGED <<script, showDiff, Debug, lastCmd, base, snap, err, result, log>>

(***************************************************************************)
(* The steps of run.                                                       *)
(***************************************************************************)
\* Lines 68-86: read the next logical line; skip it when blank, else split
\* it into command and arguments and trace it when Debug["trace"] is set.
NextLine ==
  /\ pc = "loop"
  /\ text # <<>>
  /\ LET r == readLine(text)
         c == cutAny(r.line, {" ", TAB})
     IN /\ text' = r.text
        /\ line' = r.line
        /\ IF r.line = <<>>
           THEN /\ pc' = "loop"
                /\ UNCHANGED <<cmd, args, toks, stderr>>
           ELSE /\ cmd' = c[1]
                /\ args' = c[2]
                /\ toks' = Append(toks, [line |-> r.line, cmd |-> c[1],
                                         args |-> c[2], phys |-> r.phys])
                /\ stderr' = IF MapGet(Debug, traceKey) # <<>>
                             THEN Append(stderr, <<">", " ">> \o ReplaceNL(r.line))
                             ELSE stderr
                /\ pc' = "dispatch"
  /\ UNCHANGED <<script, showDiff, Debug, lastCmd, base, snap, err, result, log>>

\* Faulty variant of Dispatch: the lookup result is not tested for nil.
DispatchUnchecked ==
  /\ pc = "dispatch"
  /\ pc' = "load"
  /\ UNCHANGED <<script, showDiff, Debug, text, line, cmd, args, lastCmd, base,
                 snap, err, result, toks, stderr, log>>

\* Faulty variant of Dispatch: the base is loaded before the result of the
\* lookup is tested.
DispatchAfterLoad ==
  /\ pc = "dispatch"
  /\ IF cmd \notin cmds
     THEN /\ log' = Append(log, EvLoad(base, Load(base, 0), FALSE))
          /\ Return(Errorf("unknown command", cmd))
     ELSE pc' = "load" /\ UNCHANGED <<result, log>>
  /\ UNCHANGED <<script, showDiff, Debug, text, line, cmd, args, lastCmd, base,
                 snap, err, toks, stderr>>

\* Lines 88-91: look the command up.
Dispatch ==
  /\ pc = "dispatch"
  /\ IF cmd \notin cmds
     THEN Return(Errorf("unknown command", cmd))
     ELSE pc' = "load" /\ UNCHANGED result
  /\ UNCHANGED <<script, showDiff, Debug, text, line, cmd, args, lastCmd, base,
                 snap, err, toks, stderr, log>>

\* Lines 93-97: snap, err = base.Load().
LoadBase ==
  /\ pc = "load"
  /\ \/ /\ err' = LoadErr
        /\ snap' = NoSnap
        /\ log' = Append(log, EvLoad(base, NoSnap, TRUE))
        /\ Return(LoadErr)
     \/ \E d \in 0..MaxDiag :
          /\ err' = NilErr
          /\ snap' = Load(base, d)
          /\ log' = Append(log, EvLoad(base, Load(base, d), FALSE))
          /\ pc' = "validate"
          /\ UNCHANGED result
  /\ UNCHANGED <<script, showDiff, Debug, text, line, cmd, args, lastCmd, base,
                 toks, stderr>>

\* Faulty variant of EagerFinalize: the mode is not consulted, the base is
\* always written.
EagerFinalizeAlwaysWrites ==
  \E ok \in BOOLEAN : log' = Append(log, EvWrite(base, ~ok))

\* Lines 102-109: diff or write the base of the failed reload.  A failure of
\* Diff suppresses the output; the result of Write is dropped.
EagerFinalize ==
  IF showDiff
  THEN \E ok \in BOOLEAN :
         log' = log \o <<EvDiff(base, ~ok)>>
                    \o (IF ok THEN <<EvStdout(base)>> ELSE <<>>)
  ELSE \E ok \in BOOLEAN : log' = Append(log, EvWrite(base, ~ok))

\* Faulty variant of Validate: the return of line 110 is missing, the loop
\* goes on after the eager finalization.
ValidateContinues ==
  /\ pc = "validate"
  /\ IF Errors(snap) > 0
     THEN IF lastCmd = <<>>
          THEN /\ Return(Errorf("errors found before executing script", <<>>))
               /\ UNCHANGED log
          ELSE IF base.kind # "Snapshot"
          THEN /\ Return(Panic("interface conversion"))
               /\ UNCHANGED log
          ELSE /\ EagerFinalize
               /\ pc' = "record"
               /\ UNCHANGED result
     ELSE /\ pc' = "record"
          /\ UNCHANGED <<result, log>>
  /\ UNCHANGED <<script, showDiff, Debug, text, line, cmd, args, lastCmd, base,
                 snap, err, toks, stderr>>

\* Faulty variant of Validate: lastCmd is recorded before the check, so the
\* error names the command that is about to run.
ValidateNamesCurrent ==
  /\ pc = "validate"
  /\ IF Errors(snap) > 0
     THEN IF lastCmd = <<>>
          THEN /\ Return(Errorf("errors found before executing script", <<>>))
               /\ UNCHANGED log
          ELSE IF base.kind # "Snapshot"
          THEN /\ Return(Panic("interface conversion"))
               /\ UNCHANGED log
          ELSE /\ EagerFinalize
               /\ Return(Errorf("errors found after executing", recordText(line)))
     ELSE /\ pc' = "record"
          /\ UNCHANGED <<result, log>>
  /\ UNCHANGED <<script, showDiff, Debug, text, line, cmd, args, lastCmd, base,
                 snap, err, toks, stderr>>

\* Faulty variant of Validate: the test of lastCmd is missing, so diagnostics
\* of the untouched workspace are treated like those of a command.
ValidateNoPreexisting ==
  /\ pc = "validate"
  /\ IF Errors(snap) > 0
     THEN IF base.kind # "Snapshot"
          THEN /\ Return(Panic("interface conversion"))
               /\ UNCHANGED log
          ELSE /\ EagerFinalize
               /\ Return(Errorf("errors found after executing", lastCmd))
     ELSE /\ pc' = "record"
          /\ UNCHANGED <<result, log>>
  /\ UNCHANGED <<script, showDiff, Debug, text, line, cmd, args, lastCmd, base,
                 snap, err, toks, stderr>>

\* Lines 98-111: the diagnostics of the snapshot just loaded.
Validate ==
  /\ pc = "validate"
  /\ IF Errors(snap) > 0
     THEN IF lastCmd = <<>>
          THEN /\ Return(Errorf("errors found before executing script", <<>>))
               /\ UNCHANGED log
          ELSE IF base.kind # "Snapshot"
          THEN /\ Return(Panic("interface conversion"))
               /\ UNCHANGED log
          ELSE /\ EagerFinalize
               /\ Return(Errorf("errors found after executing", lastCmd))
     ELSE /\ pc' = "record"
          /\ UNCHANGED <<result, log>>
  /\ UNCHANGED <<script, showDiff, Debug, text, line, cmd, args, lastCmd, base,
                 snap, err, toks, stderr>>

\* Lines 112-122: record lastCmd, then require a typed target.
Record ==
  /\ pc = "record"
  /\ lastCmd' = recordText(line)
  /\ \E typed \in BOOLEAN :
       IF typed THEN pc' = "exec" /\ UNCHANGED result
       ELSE Return(Panic("no types in target"))
  /\ UNCHANGED <<script, showDiff, Debug, text, line, cmd, args, base, snap,
                 err, toks, stderr, log>>

\* Lines 124-127: fn(snap, args), then the diagnostics it left.
CheckSync(s) ==
  IF Errors(s) > 0 THEN Return(err) ELSE pc' = "gofmt" /\ UNCHANGED result

Exec ==
  /\ pc = "exec"
  /\ IF cmd = cmdDebugName
     THEN /\ Debug' = cmdDebug(Debug, args)
          /\ snap' = snap
          /\ log' = Append(log, EvCall(cmd, args, snap, snap))
          /\ CheckSync(snap)
     ELSE \E d \in 0..MaxDiag :
          /\ Debug' = Debug
          /\ snap' = Handler(snap, cmd, args, d)
          /\ log' = Append(log, EvCall(cmd, args, snap, Handler(snap, cmd, args, d)))
          /\ CheckSync(Handler(snap, cmd, args, d))
  /\ UNCHANGED <<script, showDiff, text, line, cmd, args, lastCmd, base, err,
                 toks, stderr>>

\* Faulty variant of Format: the assignment base = snap of line 130 is
\* missing.
FormatKeepsBase ==
  /\ pc = "gofmt"
  /\ snap' = Gofmt(snap)
  /\ base' = base
  /\ log' = Append(log, EvGofmt(snap, Gofmt(snap)))
  /\ pc' = "loop"
  /\ UNCHANGED <<script, showDiff, Debug, text, line, cmd, args, lastCmd, err,
                 result, toks, stderr>>

\* Faulty variant of Format: the snapshot becomes the base without being
\* normalized.
FormatSkipsGofmt ==
  /\ pc = "gofmt"
  /\ snap' = snap
  /\ base' = snap
  /\ log' = log
  /\ pc' = "loop"
  /\ UNCHANGED <<script, showDiff, Debug, text, line, cmd, args, lastCmd, err,
                 result, toks, stderr>>

\* Lines 129-130: snap.Gofmt(); base = snap.
Format ==
  /\ pc = "gofmt"
  /\ snap' = Gofmt(snap)
  /\ base' = Gofmt(snap)
  /\ log' = Append(log, EvGofmt(snap, Gofmt(snap)))
  /\ pc' = "loop"
  /\ UNCHANGED <<script, showDiff, Debug, text, line, cmd, args, lastCmd, err,
                 result, toks, stderr>>

\* Faulty variant of LoopEnd: the test "snap == nil" is missing.
LoopEndAlwaysFinalizes ==
  /\ pc = "loop"
  /\ text = <<>>
  /\ pc' = "finalDiff"
  /\ UNCHANGED <<script, showDiff, Debug, text, line, cmd, args, lastCmd, base,
                 snap, err, result, toks, stderr, log>>

\* Lines 68, 133-136: the script is exhausted.
LoopEnd ==
  /\ pc = "loop"
  /\ text = <<>>
  /\ IF snap = NoSnap THEN Return(NilErr)
     ELSE pc' = "finalDiff" /\ UNCHANGED result
  /\ UNCHANGED <<script, showDiff, Debug, text, line, cmd, args, lastCmd, base,
                 snap, err, toks, stderr, log>>

\* Faulty variant of FinalDiff: the diff is not shown before the final load.
FinalDiffSkipped ==
  /\ pc = "finalDiff"
  /\ pc' = "finalLoad"
  /\ UNCHANGED <<script, showDiff, Debug, text, line, cmd, args, lastCmd, base,
                 snap, err, result, toks, stderr, log>>

\* Lines 138-145: show the diff before the final load.
FinalDiff ==
  /\ pc = "finalDiff"
  /\ IF showDiff
     THEN \/ /\ log' = Append(log, EvDiff(snap, TRUE))
             /\ Return(DiffErr)
          \/ /\ log' = log \o <<EvDiff(snap, FALSE), EvStdout(snap)>>
             /\ pc' = "finalLoad"
             /\ UNCHANGED result
     ELSE /\ pc' = "finalLoad"
          /\ UNCHANGED <<result, log>>
  /\ UNCHANGED <<script, showDiff, Debug, text, line, cmd, args, lastCmd, base,
                 snap, err, toks, stderr>>

\* Lines 147-151: the final reload; only its error is looked at.
FinalLoad ==
  /\ pc = "finalLoad"
  /\ \/ /\ log' = Append(log, EvLoad(snap, NoSnap, TRUE))
        /\ Return(Errorf("checking rewritten packages", <<>>))
     \/ \E d \in 0..MaxDiag :
          /\ log' = Append(log, EvLoad(snap, Load(snap, d), FALSE))
          /\ pc' = "finalWrite"
          /\ UNCHANGED result
  /\ UNCHANGED <<script, showDiff, Debug, text, line, cmd, args, lastCmd, base,
                 snap, err, toks, stderr>>

\* Lines 153-157: return nil in diff mode, else the result of snap.Write().
FinalWrite ==
  /\ pc = "finalWrite"
  /\ IF showDiff
     THEN /\ Return(NilErr)
          /\ UNCHANGED log
     ELSE \/ /\ log' = Append(log, EvWrite(snap, FALSE))
             /\ Return(NilErr)
          \/ /\ log' = Append(log, EvWrite(snap, TRUE))
             /\ Return(WriteErr)
  /\ UNCHANGED <<script, showDiff, Debug, text, line, cmd, args, lastCmd, base,
                 snap, err, toks, stderr>>

Next ==
  \/ NextLine
  \/ Dispatch
  \/ LoadBase
  \/ Validate
  \/ Record
  \/ Exec
  \/ Format
  \/ LoopEnd
  \/ FinalDiff
  \/ FinalLoad
  \/ FinalWrite

Spec == Init /\ [][Next]_vars

(***************************************************************************)
(* Vocabulary of the properties.                                           *)
(***************************************************************************)
Ops(o) == SelectSeq(log, LAMBDA e : e.op = o)
Loads == Ops("Load")
Calls == Ops("Call")
Gofmts == Ops("Gofmt")
Diffs == Ops("Diff")
Stdouts == Ops("Stdout")
Writes == Ops("Write")
Last(s) == s[Len(s)]

\* The whole script tokenized: its commands, in order.
RECURSIVE Commands(_)
Commands(t) ==
  IF t = <<>> THEN <<>>
  ELSE LET r == readLine(t)
           c == cutAny(r.line, {" ", TAB})
       IN (IF r.line = <<>> THEN <<>>
           ELSE <<[line |-> r.line, cmd |-> c[1], args |-> c[2], phys |-> r.phys]>>)
          \o Commands(r.text)

\* The physical lines of a text.
RECURSIVE PhysLines(_)
PhysLines(t) ==
  LET i == IndexAny(t, {NL})
  IN IF i < 0 THEN <<t>> ELSE <<Upto(t, i)>> \o PhysLines(From(t, i + 1))

\* A script of blank lines, whitespace and comments only: on every physical
\* line the first character that is no blank or tab, if any, is a '#'.
BlankOnly(t) ==
  \A i \in 1..Len(PhysLines(t)) :
    LET l == TrimLeft(PhysLines(t)[i], {" ", TAB})
    IN l = <<>> \/ l[1] = "#"

Preexisting == Errorf("errors found before executing script", <<>>)
FinalValidationFailed == Errorf("checking rewritten packages", <<>>)
UnknownCommand(name) == Errorf("unknown command", name)
CommandIntroducedErrors(c) == Errorf("errors found after executing", c)

\* The first Load of the run returned a snapshot with diagnostics.
FirstLoadHasDiagnostics ==
  /\ log # <<>>
  /\ log[1].op = "Load"
  /\ ~log[1].err
  /\ log[1].on = Workspace
  /\ Errors(log[1].out) > 0

\* C6: when the first Load returns a snapshot with diagnostics, the run
\* aborts with "errors found before executing script"; no handler is
\* invoked, nothing is written and no diff is computed or emitted: the Load
\* stays the only call of the run.
C6_PreexistingErrors ==
  FirstLoadHasDiagnostics =>
    /\ Len(log) = 1
    /\ pc \in {"validate", "done"}
    /\ pc = "done" => result = Preexisting

C6_Witness ==
  /\ FirstLoadHasDiagnostics
  /\ pc = "done"
  /\ result = Preexisting
  /\ Len(Commands(script)) >= 2

\* The command read last has been looked up and is not in the table.
UnknownDispatched ==
  /\ toks # <<>>
  /\ Last(toks).cmd \notin cmds
  /\ pc # "dispatch"

\* C7: a command whose name is not in the table ends the run with
\* "unknown command <name>"; its iteration makes no call at all (no Load, no
\* handler, no Diff, no output, no Write: the log holds only the Load, handler
\* and Gofmt of each earlier command), and the run has ended, so no later
\* command is run.
C7_UnknownCommand ==
  UnknownDispatched =>
    /\ pc = "done"
    /\ result = UnknownCommand(Last(toks).cmd)
    /\ Len(log) = 3 * (Len(toks) - 1)
    /\ Len(Calls) = Len(toks) - 1
    /\ Diffs = <<>> /\ Stdouts = <<>> /\ Writes = <<>>

C7_Witness ==
  /\ UnknownDispatched
  /\ pc = "done"
  /\ Len(toks) >= 2
  /\ text # <<>>
  /\ Len(Commands(script)) > Len(toks)

\* C8: in diff mode Snapshot.Write is never called.
C8_DiffModeNeverWrites ==
  showDiff => Writes = <<>>

C8_Witness ==
  /\ showDiff
  /\ pc = "done"
  /\ result.msg = "errors found after executing"
  /\ Stdouts # <<>>

\* C9: a script of blank lines, whitespace and comments only makes run
\* return nil without any Load, handler call, Diff, output or Write (and
\* without reading a command or tracing one).
C9_EmptyScriptNoOp ==
  BlankOnly(script) =>
    /\ log = <<>>
    /\ toks = <<>>
    /\ stderr = <<>>
    /\ pc \in {"loop", "done"}
    /\ pc = "done" => result = NilErr

C9_Witness ==
  /\ BlankOnly(script)
  /\ pc = "done"
  /\ result = NilErr
  /\ \E i \in 1..Len(script) : script[i] = "#"
  /\ \E i \in 1..Len(script) : script[i] = NL

(***************************************************************************)
(* The happy path.                                                         *)
(***************************************************************************)
\* The run is over; the script has at least one command and only known
\* ones; every Load made returned without error and without diagnostics;
\* no handler left diagnostics.
HappyRun ==
  /\ pc = "done"
  /\ LET cs == Commands(script)
     IN /\ cs # <<>>
        /\ \A i \in 1..Len(cs) : cs[i].cmd \in cmds
  /\ \A i \in 1..Len(log) :
       /\ log[i].op = "Load" => ~log[i].err /\ Errors(log[i].out) = 0
       /\ log[i].op = "Call" => Errors(log[i].out) = 0

\* The handlers ran once each, in script order, each on the snapshot loaded
\* from the normalized snapshot of the one before.
HandlersChained ==
  LET cs == Commands(script)
      calls == Calls
  IN /\ Len(calls) = Len(cs)
     /\ \A i \in 1..Len(calls) :
          /\ calls[i].cmd = cs[i].cmd
          /\ calls[i].args = cs[i].args
          /\ calls[i].on =
               Load(IF i = 1 THEN Workspace ELSE Gofmt(calls[i - 1].out), 0)

HappyOutcome ==
  /\ result = NilErr
  /\ HandlersChained
  /\ IF showDiff
     THEN /\ Stdouts = <<EvStdout(Gofmt(Last(Calls).out))>>
          /\ Writes = <<>>
     ELSE /\ Len(Writes) = 1
          /\ Writes[1].on = Gofmt(Last(Calls).out)

\* No call other than Load and the handlers failed: every target had type
\* information, and Diff and Write returned no error.
NoOtherFailure ==
  /\ result.kind # "panic"
  /\ \A i \in 1..Len(Diffs) : ~Diffs[i].err
  /\ \A i \in 1..Len(Writes) : ~Writes[i].err

\* C1 as stated (read with typed targets): on the happy path the handlers
\* are chained, the run succeeds, and the last normalized snapshot is written
\* (write mode) or diffed without a write (diff mode).
C1_AsStated == (HappyRun /\ result.kind # "panic") => HappyOutcome

\* C1, amended: the same, provided also that every loaded snapshot's target
\* has type information and the final Diff or Write returns no error.
C1_HappyPath == (HappyRun /\ NoOtherFailure) => HappyOutcome

C1_Witness ==
  /\ HappyRun
  /\ NoOtherFailure
  /\ ~showDiff
  /\ Len(Calls) >= 3
  /\ Len(Content(Writes[1].on)) >= 2

(***************************************************************************)
(* Diagnostics found when the edits of a command are reloaded.             *)
(***************************************************************************)
\* The Load at the start of command k = Len(toks) >= 2 returned a snapshot
\* with diagnostics.  (The final reload is the Load number Len(toks) + 1.)
ReloadFoundDiagnostics ==
  /\ Len(toks) >= 2
  /\ Len(Loads) = Len(toks)
  /\ ~Last(Loads).err
  /\ Errors(Last(Loads).out) > 0

PrevCmd == toks[Len(toks) - 1]
PrevCall == Calls[Len(toks) - 1]
\* The snapshot command k-1 produced: its handler's result, normalized.
PrevSnapshot == Gofmt(PrevCall.out)

LastLoadIdx == Max({i \in 1..Len(log) : log[i].op = "Load"})
\* The calls made after the last Load.
AfterLastLoad == SubSeq(log, LastLoadIdx + 1, Len(log))

Marker == <<" ", BS, " ", ".", ".", ".">>
FirstSubLine(l) == PhysLines(l)[1]
HasNewline(l) == \E i \in 1..Len(l) : l[i] = NL

\* The eager finalization of snapshot s: a Diff and, unless it failed, its
\* output (diff mode); a Write (write mode).
EagerlyFinalized(s) ==
  \E failed \in BOOLEAN :
    AfterLastLoad =
      IF showDiff
      THEN <<EvDiff(s, failed)>> \o (IF failed THEN <<>> ELSE <<EvStdout(s)>>)
      ELSE <<EvWrite(s, failed)>>

\* The run stopped at the reload, naming the text t, after finalizing the
\* snapshot of command k-1; handler k did not run.
AbortsNaming(t) ==
  /\ pc \in {"validate", "done"}
  /\ pc = "done" =>
       /\ result = CommandIntroducedErrors(t)
       /\ Len(Calls) = Len(toks) - 1
       /\ PrevCall.cmd = PrevCmd.cmd /\ PrevCall.args = PrevCmd.args
       /\ EagerlyFinalized(PrevSnapshot)

\* C2 as stated: the error names the first sub-line of command k-1, with the
\* truncation marker when that command spanned several physical lines.
C2_AsStated ==
  ReloadFoundDiagnostics =>
    AbortsNaming(FirstSubLine(PrevCmd.line)
                 \o (IF PrevCmd.phys > 1 THEN Marker ELSE <<>>))

\* C2, amended: the truncation marker is appended when the joined,
\* comment-stripped line of command k-1 still contains a newline (a
\* continuation that is blank or a comment leaves none).
C2_ReloadNamesPrevious ==
  ReloadFoundDiagnostics =>
    AbortsNaming(FirstSubLine(PrevCmd.line)
                 \o (IF HasNewline(PrevCmd.line) THEN Marker ELSE <<>>))

C2_Witness ==
  /\ ReloadFoundDiagnostics
  /\ pc = "done"
  /\ PrevCmd.phys > 1
  /\ HasNewline(PrevCmd.line)
  /\ result = CommandIntroducedErrors(<<"e", "x", " ", "b">> \o Marker)

\* C3: what is eagerly written or diffed when a reload finds diagnostics is
\* the last known-good state: it does not contain the edits of the command
\* whose reload produced the diagnostics, it is the content that command
\* was given.
C3_EagerStateIsLastGood ==
  (ReloadFoundDiagnostics /\ pc = "done") =>
    /\ AfterLastLoad # <<>>
    /\ \A i \in 1..Len(AfterLastLoad) :
         Content(AfterLastLoad[i].on) = Content(PrevCall.on)

(***************************************************************************)
(* Diagnostics left by a handler, and the finalizer.                       *)
(***************************************************************************)
\* C4: when a handler leaves diagnostics on the snapshot, run returns a
\* non-nil error.
C4_SyncErrorFails ==
  (log # <<>> /\ Last(log).op = "Call" /\ Errors(Last(log).out) > 0) =>
    /\ pc = "done"
    /\ result.kind = "error"

\* The final reload has been made: one Load more than commands read.
FinalLoadDone == Loads # <<>> /\ Len(Loads) = Len(toks) + 1

\* C5: on the normal completion path of write mode, the snapshot is written
\* only when its final reload returned no error and no diagnostics.
C5_WriteOnlyValidated ==
  (~showDiff /\ FinalLoadDone /\ Writes # <<>>) =>
    /\ ~Last(Loads).err
    /\ Errors(Last(Loads).out) = 0

\* C10: the final reload is made on the final snapshot; in diff mode the
\* diff of that snapshot has been computed and emitted just before it; when
\* the reload fails, run returns "checking rewritten packages", no Write
\* is made, and the emitted diff is there.
C10_DiffBeforeFinalLoad ==
  /\ (pc = "finalLoad" /\ showDiff) =>
       /\ Len(log) >= 2
       /\ Last(log) = EvStdout(snap)
       /\ log[Len(log) - 1] = EvDiff(snap, FALSE)
  /\ FinalLoadDone =>
       /\ log[LastLoadIdx].on = Gofmt(Last(Calls).out)
       /\ showDiff =>
            /\ LastLoadIdx >= 3
            /\ log[LastLoadIdx - 1] = EvStdout(log[LastLoadIdx].on)
            /\ log[LastLoadIdx - 2] = EvDiff(log[LastLoadIdx].on, FALSE)
       /\ log[LastLoadIdx].err =>
            /\ pc = "done"
            /\ result = FinalValidationFailed
            /\ Writes = <<>>
            /\ LastLoadIdx = Len(log)

C10_Witness ==
  /\ FinalLoadDone
  /\ Last(Loads).err
  /\ showDiff
  /\ pc = "done"
  /\ Stdouts # <<>>
  /\ Len(Calls) >= 2

(***************************************************************************)
(* The tokenizer alone: lines 68-82 of run applied to every script of at   *)
(* most MaxLen characters over an alphabet with a letter, the blank, '#',  *)
(* a quote with escapes, the backquote, the backslash and the newline.     *)
(* The commands read are collected in toks; nothing is run.                *)
(***************************************************************************)
TokAlphabet == {"a", " ", "#", SQ, BQ, BS, NL}

TokScripts == UNION { [1..n -> TokAlphabet] : n \in 0..MaxLen }

InitTok ==
  /\ script \in TokScripts
  /\ showDiff = FALSE
  /\ Debug = EmptyMap
  /\ text = script
  /\ line = <<>>
  /\ cmd = <<>>
  /\ args = <<>>
  /\ lastCmd = <<>>
  /\ base = Workspace
  /\ snap = NoSnap
  /\ err = NilErr
  /\ pc = "tok"
  /\ result = Running
  /\ toks = <<>>
  /\ stderr = <<>>
  /\ log = <<>>

\* Lines 68-82: one pass of the loop up to the split of the line.
TokLine ==
  /\ pc = "tok"
  /\ text # <<>>
  /\ LET r == readLine(text)
         c == cutAny(r.line, {" ", TAB})
     IN /\ text' = r.text
        /\ line' = r.line
        /\ IF r.line = <<>>
           THEN UNCHANGED <<cmd, args, toks>>
           ELSE /\ cmd' = c[1]
                /\ args' = c[2]
                /\ toks' = Append(toks, [line |-> r.line, cmd |-> c[1],
                                         args |-> c[2], phys |-> r.phys])
  /\ UNCHANGED <<script, showDiff, Debug, lastCmd, base, snap, err, pc, result,
                 stderr, log>>

\* Line 68: the script is exhausted.
TokEnd ==
  /\ pc = "tok"
  /\ text = <<>>
  /\ pc' = "done"
  /\ UNCHANGED <<script, showDiff, Debug, text, line, cmd, args, lastCmd, base,
                 snap, err, result, toks, stderr, log>>

NextTok == TokLine \/ TokEnd

SpecTok == InitTok /\ [][NextTok]_vars

(***************************************************************************)
(* Quoted spans, as the specification describes them: a span is opened by  *)
(* a quote character met outside every span and ends at the next           *)
(* occurrence of the same character; inside a span opened by ' or " a      *)
(* backslash takes the following character with it; other quote            *)
(* characters inside a span are ordinary text.                             *)
(***************************************************************************)
\* The sequence whose p-th element is the quote of the span that character
\* p of l lies in (the opening quote itself lies outside it, the closing one
\* inside), or NUL; its last element, number Len(l) + 1, is the span still
\* open at the end of l.
RECURSIVE spanScan(_, _, _, _)
spanScan(l, p, q, acc) ==
  IF p > Len(l) THEN Append(acc, q)
  ELSE IF q = NUL THEN
    spanScan(l, p + 1, IF l[p] \in {SQ, DQ, BQ} THEN l[p] ELSE NUL, Append(acc, NUL))
  ELSE IF l[p] = q THEN spanScan(l, p + 1, NUL, Append(acc, q))
  ELSE IF l[p] = BS /\ q \in {SQ, DQ} /\ p < Len(l) THEN
    spanScan(l, p + 2, q, acc \o <<q, q>>)
  ELSE spanScan(l, p + 1, q, Append(acc, q))

SpanAt(l) == spanScan(l, 1, NUL, <<>>)

\* Character p of l lies inside a span that is closed further on.
InClosedSpan(l, p) ==
  LET sp == SpanAt(l)
  IN /\ sp[p] # NUL
     /\ \E e \in p..Len(l) :
          /\ l[e] = sp[p]
          /\ sp[e + 1] = NUL
          /\ \A m \in p..e : sp[m] = sp[p]

\* Every span of l is closed.
WellQuoted(l) == Last(SpanAt(l)) = NUL

\* The position at which trimComments cut l, or 0 when it made no cut.
CutPos(l) ==
  LET r == trimScan(l, 0, NUL)
  IN IF Len(r) < Len(l) THEN Len(r) + 1 ELSE 0

\* The next physical line of the script text, the argument of the call of
\* trimComments at line 71.
NextPhysLine == PhysLines(text)[1]

\* C11: trimComments never cuts a line at a '#' that lies inside a quoted
\* span (one that is closed further on).
C11_NoCutInsideQuotes ==
  (pc = "tok" /\ text # <<>>) =>
    (CutPos(NextPhysLine) # 0 => ~InClosedSpan(NextPhysLine, CutPos(NextPhysLine)))

\* C14: on a line whose spans are all closed, trimComments returns the text
\* before the first '#' outside every span, trimmed of white space (the
\* whole line, trimmed, when there is no such '#').
C14_CutAtFirstUnquotedHash ==
  (pc = "tok" /\ text # <<>> /\ WellQuoted(NextPhysLine)) =>
    LET l == NextPhysLine
        hashes == {p \in 1..Len(l) : l[p] = "#" /\ SpanAt(l)[p] = NUL}
    IN trimComments(l) =
         TrimSpace(IF hashes = {} THEN l ELSE Upto(l, Min(hashes) - 1))

(***************************************************************************)
(* Continuation lines.                                                     *)
(***************************************************************************)
\* l ends in a backslash that no backslash escapes: the number of
\* backslashes at its end is odd.
EndsInUnescapedBS(l) ==
  LET others == {i \in 1..Len(l) : l[i] # BS}
      run == Len(l) - (IF others = {} THEN 0 ELSE Max(others))
  IN run % 2 = 1

\* The text after the next physical line.
AfterNextPhysLine == cut(text, <<NL>>)[2]

\* The next logical line is made of more than one physical line.
NextIsJoined == readLine(text).phys > 1

\* C12 as stated: a physical line is joined with the next one exactly when
\* its raw text ends in an unescaped backslash and script text follows.
C12_AsStated ==
  (pc = "tok" /\ text # <<>>) =>
    (NextIsJoined <=>
       (EndsInUnescapedBS(NextPhysLine) /\ AfterNextPhysLine # <<>>))

\* C12, amended: the decision is made on the line after comment stripping
\* and trimming: it is joined with the next raw line exactly when the
\* stripped text ends in a backslash, escaped or not, and script text
\* follows.  Hence a backslash followed only by a comment continues the
\* line, and a backslash inside a comment does not.
C12_DecidedAfterStripping ==
  (pc = "tok" /\ text # <<>>) =>
    LET l == NextPhysLine
        hashes == {p \in 1..Len(l) : l[p] = "#"}
    IN /\ NextIsJoined <=>
            (HasSuffix(trimComments(l), BS) /\ AfterNextPhysLine # <<>>)
       /\ (AfterNextPhysLine # <<>> /\ hashes # {} /\ Min(hashes) > 1
             /\ TrimSpace(Upto(l, Min(hashes) - 1)) # <<>>
             /\ Last(TrimSpace(Upto(l, Min(hashes) - 1))) = BS
             /\ \A p \in 1..Min(hashes) : l[p] \notin {SQ, DQ, BQ})
          => NextIsJoined
       /\ (hashes # {} /\ \A p \in 1..Min(hashes) : l[p] \notin {SQ, DQ, BQ, BS})
          => ~NextIsJoined

C12_Witness ==
  /\ pc = "tok"
  /\ toks # <<>>
  /\ toks[1].phys = 2
  /\ ~HasSuffix(PhysLines(script)[1], BS)
  /\ \E p \in 1..Len(PhysLines(script)[1]) : PhysLines(script)[1][p] = "#"

(***************************************************************************)
(* Repeated joining.                                                       *)
(***************************************************************************)
\* The text t without its first k physical lines.
RECURSIVE DropLines(_, _)
DropLines(t, k) == IF k = 0 THEN t ELSE DropLines(cut(t, <<NL>>)[2], k - 1)

\* The comment-stripped join of the first k physical lines P[1..k].
RECURSIVE Joined(_, _)
Joined(P, k) ==
  IF k = 1 THEN trimComments(P[1])
  ELSE LET J == Joined(P, k - 1)
       IN trimComments(Upto(J, Len(J) - 1) \o <<NL>> \o P[k])

\* After k physical lines of t the joined line still ends in a backslash
\* and script text remains.
Continues(t, k) ==
  HasSuffix(Joined(PhysLines(t), k), BS) /\ DropLines(t, k) # <<>>

\* The number of physical lines of the next logical line of t: the least k
\* after which the joining does not continue.
JoinCount(t) ==
  CHOOSE k \in 1..Len(PhysLines(t)) :
    ~Continues(t, k) /\ \A j \in 1..(k - 1) : Continues(t, j)

\* C15: joining is repeated while the joined, comment-stripped line ends in
\* a backslash and script text remains; each join drops the backslash,
\* inserts a newline and appends the next physical line, which is consumed
\* and starts no command of its own; a backslash at the end of the joined
\* line with no script text left is kept and the line processed as it is.
C15_JoinRepeats ==
  [][(pc = "tok" /\ text # <<>>) =>
       LET n == JoinCount(text)
           J == Joined(PhysLines(text), n)
       IN /\ line' = TrimLeft(J, {" ", TAB, NL})
          /\ text' = DropLines(text, n)
          /\ line' # <<>> =>
                (Len(toks') = Len(toks) + 1 /\ Last(toks').phys = n)
          /\ HasSuffix(J, BS) => (text' = <<>> /\ HasSuffix(line', BS))]_vars

C15_Witness ==
  /\ pc = "tok"
  /\ toks # <<>>
  /\ toks[1].phys >= 3
  /\ toks[1].line = <<"a">>

(***************************************************************************)
(* The split of a logical line.                                            *)
(***************************************************************************)
\* The first maximal run of characters of l that are not in ws, and the
\* rest of l after the one character that ends the run.
FirstRun(l, ws) ==
  LET stops == {p \in 1..Len(l) : l[p] \in ws}
  IN IF stops = {} THEN <<l, <<>>>>
     ELSE <<Upto(l, Min(stops) - 1), From(l, Min(stops))>>

\* C16: the command name of every retained line is its first run
\* of characters other than space, tab and newline, the arguments the rest
\* after the one white-space character that ends the run.
C16_NameIsFirstNonWhitespaceRun ==
  \A i \in 1..Len(toks) :
    /\ toks[i].cmd = FirstRun(toks[i].line, {" ", TAB, NL})[1]
    /\ toks[i].args = FirstRun(toks[i].line, {" ", TAB, NL})[2]

(***************************************************************************)
(* The debug command.  Scripts of debug commands: an optional first line   *)
(* that presets two keys, then one debug command of up to MaxFields        *)
(* fields.                                                                 *)
(***************************************************************************)
MaxFields == 3

DbgFields ==
  { <<"k">>,
    <<"k", "=", "v">>,
    <<"j", "=">>,
    <<"j", "=", "v", "=", "w">>,
    <<"=", "v">> }

DbgPreset ==
  cmdDebugName \o <<" ", "k", "=", "w", TAB, "j", "=", "w", "=">>

RECURSIVE JoinFields(_)
JoinFields(fs) ==
  IF fs = <<>> THEN <<>> ELSE <<" ">> \o Head(fs) \o JoinFields(Tail(fs))

DbgLines ==
  UNION { { cmdDebugName \o JoinFields(fs) : fs \in [1..n -> DbgFields] } :
          n \in 0..MaxFields }

DbgScripts == DbgLines \cup { DbgPreset \o <<NL>> \o l : l \in DbgLines }

InitDbg ==
  /\ script \in DbgScripts
  /\ showDiff \in BOOLEAN
  /\ Debug = EmptyMap
  /\ text = script
  /\ line = <<>>
  /\ cmd = <<>>
  /\ args = <<>>
  /\ lastCmd = <<>>
  /\ base = Workspace
  /\ snap = NoSnap
  /\ err = NilErr
  /\ pc = "loop"
  /\ result = Running
  /\ toks = <<>>
  /\ stderr = <<>>
  /\ log = <<>>

SpecDbg == InitDbg /\ [][Next]_vars

\* The key and the value a field names: the text before and after its first
\* '=', or the field and "1" when it has no '='.
Equals(f) == {p \in 1..Len(f) : f[p] = "="}
KeyOf(f) == IF Equals(f) = {} THEN f ELSE Upto(f, Min(Equals(f)) - 1)
ValOf(f) == IF Equals(f) = {} THEN <<"1">> ELSE From(f, Min(Equals(f)))

\* The positions of the fields of fs that name key k.
Naming(fs, k) == {i \in 1..Len(fs) : KeyOf(fs[i]) = k}

\* C17: the debug command sets, for every key its fields name, Debug[key]
\* to the value of the last field that names it (the text after the first
\* '=', or "1" when the field has none), leaves every other key as it was,
\* and leaves the snapshot, its diagnostics and its pending edits, alone.
C17_DebugSetsKeys ==
  [][(pc = "exec" /\ cmd = cmdDebugName) =>
       LET fs == Fields(args)
           named == {KeyOf(fs[i]) : i \in 1..Len(fs)}
       IN /\ DOMAIN Debug' = (DOMAIN Debug) \cup named
          /\ \A k \in named : Debug'[k] = ValOf(fs[Max(Naming(fs, k))])
          /\ \A k \in (DOMAIN Debug) \ named : Debug'[k] = Debug[k]
          /\ snap' = snap
          /\ Errors(snap') = Errors(snap)
          /\ snap'.pending = snap.pending
          /\ Last(log') = EvCall(cmd, args, snap, snap)]_vars

\* The second debug command overrode k, once within its own fields, and
\* left j as the first command set it.
C17_Witness ==
  /\ pc = "gofmt"
  /\ Len(toks) = 2
  /\ cmd = cmdDebugName
  /\ Fields(args) = << <<"k", "=", "v">>, <<"k">> >>
  /\ Debug = MapSet(MapSet(EmptyMap, <<"k">>, <<"1">>), <<"j">>, <<"w", "=">>)

(***************************************************************************)
(* lastCmd and the base.                                                   *)
(***************************************************************************)
\* C18: where the loop checks a freshly loaded snapshot, lastCmd is empty
\* exactly when the base is still the initial workspace, which is exactly
\* when no handler has completed; so the conversion of base to a Snapshot
\* on the path of the "errors found after executing" error never fails,
\* and "errors found before executing script" is only reported for the
\* first Load of the run.
C18_LastCmdIffSnapshotBase ==
  /\ pc = "validate" =>
       /\ (lastCmd = <<>>) <=> (base = Workspace)
       /\ (base = Workspace) <=> (Calls = <<>>)
       /\ (base = Workspace) <=> (Gofmts = <<>>)
       /\ base # Workspace =>
            (base.kind = "Snapshot" /\ base = Last(Gofmts).out)
  /\ \A i \in 1..Len(toks) : recordText(toks[i].line) # <<>>
  /\ result # Panic("interface conversion")
  /\ result = Preexisting => (Len(Loads) = 1 /\ Calls = <<>>)

C18_Witness ==
  /\ pc = "validate"
  /\ lastCmd # <<>>
  /\ Errors(snap) > 0
  /\ base.kind = "Snapshot"
  /\ Len(Loads) = 3

(***************************************************************************)
(* Finalization happens once.                                              *)
(***************************************************************************)
\* The run is about to finalize eagerly: the snapshot just loaded has
\* diagnostics and a command ran before.
EagerStep ==
  pc = "validate" /\ Errors(snap) > 0 /\ lastCmd # <<>>

\* C19: in one run Write is called at most once, Diff at most once and a
\* diff is written to Stdout at most once, never both a Diff and a Write; a
\* run in write mode calls no Diff and writes no diff; and the step that
\* finalizes because a command introduced errors ends the run with that
\* error, after which run takes no step: no Load, handler call, Write or
\* diff follows.
C19_FinalizeAtMostOnce ==
  [][/\ Len(Writes') <= 1
     /\ Len(Stdouts') <= 1
     /\ Len(Diffs') + Len(Writes') <= 1
     /\ Len(Stdouts') <= Len(Diffs')
     /\ ~showDiff => (Diffs' = <<>> /\ Stdouts' = <<>>)
     /\ EagerStep =>
          /\ pc' = "done"
          /\ result' = CommandIntroducedErrors(lastCmd)
          /\ Len(Diffs') + Len(Writes') = 1
          /\ EagerlyFinalized(base)'
     /\ result'.msg = "errors found after executing" => EagerStep
     /\ pc # "done"]_vars

C19_Witness ==
  /\ pc = "done"
  /\ result = CommandIntroducedErrors(lastCmd)
  /\ showDiff
  /\ Len(Stdouts) = 1
  /\ EagerlyFinalized(base)
  /\ text # <<>>

(***************************************************************************)
(* Termination.  run is one sequential computation that keeps taking its   *)
(* next step, every call of the refactor package returning: weak fairness  *)
(* of Next.                                                                *)
(***************************************************************************)
MaxLiveParts == 2

LiveScripts ==
  UNION { { JoinParts(ps) : ps \in [1..n -> ScriptParts] } : n \in 0..MaxLiveParts }

InitLive ==
  /\ script \in LiveScripts
  /\ showDiff \in BOOLEAN
  /\ Debug = EmptyMap
  /\ text = script
  /\ line = <<>>
  /\ cmd = <<>>
  /\ args = <<>>
  /\ lastCmd = <<>>
  /\ base = Workspace
  /\ snap = NoSnap
  /\ err = NilErr
  /\ pc = "loop"
  /\ result = Running
  /\ toks = <<>>
  /\ stderr = <<>>
  /\ log = <<>>

LiveSpec == InitLive /\ [][Next]_vars /\ WF_vars(Next)

\* C20: run terminates on every script: each reading of a line shortens
\* the remaining script text, which no other step changes, so the loop
\* ends when the script is exhausted or at the first abort; the run then
\* reaches its end, where it stays.
C20_Terminates ==
  /\ <>[](pc = "done" /\ result # Running)
  /\ [][/\ (pc = "loop" /\ text # <<>>) => Len(text') < Len(text)
        /\ ~(pc = "loop" /\ text # <<>>) => text' = text
        /\ pc # "done"]_vars

C20_Witness ==
  /\ pc = "done"
  /\ text = <<>>
  /\ Len(toks) >= 2
  /\ Len(Loads) = Len(toks) + 1
  /\ Len(Writes) + Len(Stdouts) = 1
  /\ result = NilErr

(***************************************************************************)
(* The order of the steps of one iteration.                                *)
(***************************************************************************)
\* C13 as stated: "unknown command" for command k >= 2 is reported only
\* after the reload of the edits of command k-1 (the Load number k) returned
\* without diagnostics.
C13_AsStated ==
  (UnknownDispatched /\ Len(toks) >= 2) =>
    /\ Len(Loads) = Len(toks)
    /\ ~Last(Loads).err
    /\ Errors(Last(Loads).out) = 0

\* C13, amended: the name is resolved before the snapshot is acquired.  An
\* unknown command k >= 2 ends the run with "unknown command" right after
\* the Gofmt of command k-1: the edits of command k-1 are never reloaded, so
\* their diagnostics are neither found nor reported, and nothing is
\* finalized.
C13_LookupBeforeLoad ==
  (UnknownDispatched /\ Len(toks) >= 2) =>
    /\ pc = "done"
    /\ result = UnknownCommand(Last(toks).cmd)
    /\ Len(Loads) = Len(toks) - 1
    /\ Last(log) = EvGofmt(PrevCall.out, base)
    /\ result # CommandIntroducedErrors(lastCmd)

C13_Witness ==
  /\ UnknownDispatched
  /\ Len(toks) >= 2
  /\ pc = "done"
  /\ base.pending # <<>>
  /\ Last(log).op = "Gofmt"

====
